---- MODULE Spec2Model ----
(***************************************************************************)
(* Data-type registry of the robot telemetry streaming demo                *)
(* (src/data-types.ts) and the ingestion pipeline described for it.        *)
(*                                                                         *)
(* A JavaScript string is modelled as the sequence of its UTF-16 code      *)
(* units; a code unit is a one-character TLA+ string, or "U+xxxx" for a    *)
(* unit outside ASCII.  The object literal DATA_TYPE_DEFINITIONS is        *)
(* modelled as the sequence of its [key, value] entries in insertion       *)
(* order, which is the order Object.entries enumerates string keys in.     *)
(***************************************************************************)
EXTENDS Integers, Sequences, FiniteSets, Bags, TLC

(***************************************************************************)
(* enum DataTypeEnum                                                       *)
(***************************************************************************)
TIME_SERIES == "time_series"
PARAMETERS == "parameters"
IMAGES == "images"
VIDEO == "video"
AUDIO == "audio"
LOG == "log"
MARKDOWN == "markdown"
FILE == "file"
CSV == "csv"
SAFETENSORS == "safetensors"

DataTypeEnum ==
    {TIME_SERIES, PARAMETERS, IMAGES, VIDEO, AUDIO, LOG, MARKDOWN, FILE, CSV,
     SAFETENSORS}

\* The value of a property that is absent, and of a call that has not returned.
Undefined == "undefined"

(***************************************************************************)
(* The entries of DATA_TYPE_DEFINITIONS                                    *)
(***************************************************************************)
\* TimeSeriesDefinition with the dot of '.json' left out.
TimeSeriesDefinition_NoDot ==
    [type |-> TIME_SERIES,
     mimeTypes |-> <<"application/json", "application/x-msgpack", "application/cbor">>,
     fileSuffixes |-> <<<<"j", "s", "o", "n">>,
                        <<".", "m", "s", "g", "p", "a", "c", "k">>,
                        <<".", "c", "b", "o", "r">>,
                        <<".", "t", "i", "m", "e", "s", "e", "r", "i", "e", "s">>>>,
     storageBackend |-> "mongodb",
     compressionSupported |-> TRUE,
     streamingSupported |-> TRUE,
     maxSizeMB |-> 100]

TimeSeriesDefinition ==
    [type |-> TIME_SERIES,
     mimeTypes |-> <<"application/json", "application/x-msgpack", "application/cbor">>,
     fileSuffixes |-> <<<<".", "j", "s", "o", "n">>,
                        <<".", "m", "s", "g", "p", "a", "c", "k">>,
                        <<".", "c", "b", "o", "r">>,
                        <<".", "t", "i", "m", "e", "s", "e", "r", "i", "e", "s">>>>,
     storageBackend |-> "mongodb",
     compressionSupported |-> TRUE,
     streamingSupported |-> TRUE,
     maxSizeMB |-> 100]

ParametersDefinition ==
    [type |-> PARAMETERS,
     mimeTypes |-> <<"application/json", "application/yaml", "application/toml">>,
     fileSuffixes |-> <<<<".", "j", "s", "o", "n">>,
                        <<".", "y", "a", "m", "l">>,
                        <<".", "y", "m", "l">>,
                        <<".", "t", "o", "m", "l">>,
                        <<".", "p", "a", "r", "a", "m", "s">>>>,
     storageBackend |-> "mongodb",
     compressionSupported |-> FALSE,
     streamingSupported |-> FALSE,
     maxSizeMB |-> 10]

ImagesDefinition ==
    [type |-> IMAGES,
     mimeTypes |-> <<"image/jpeg", "image/png", "image/webp", "image/tiff", "image/bmp", "image/gif", "image/svg+xml", "image/x-raw">>,
     fileSuffixes |-> <<<<".", "j", "p", "g">>,
                        <<".", "j", "p", "e", "g">>,
                        <<".", "p", "n", "g">>,
                        <<".", "w", "e", "b", "p">>,
                        <<".", "t", "i", "f", "f">>,
                        <<".", "t", "i", "f">>,
                        <<".", "b", "m", "p">>,
                        <<".", "g", "i", "f">>,
                        <<".", "s", "v", "g">>,
                        <<".", "r", "a", "w">>,
                        <<".", "n", "e", "f">>,
                        <<".", "c", "r", "2">>,
                        <<".", "a", "r", "w">>>>,
     storageBackend |-> "s3",
     compressionSupported |-> TRUE,
     streamingSupported |-> FALSE,
     maxSizeMB |-> 50]

VideoDefinition ==
    [type |-> VIDEO,
     mimeTypes |-> <<"video/mp4", "video/webm", "video/x-msvideo", "video/quicktime", "video/x-matroska", "video/H264", "video/H265">>,
     fileSuffixes |-> <<<<".", "m", "p", "4">>,
                        <<".", "w", "e", "b", "m">>,
                        <<".", "a", "v", "i">>,
                        <<".", "m", "o", "v">>,
                        <<".", "m", "k", "v">>,
                        <<".", "h", "2", "6", "4">>,
                        <<".", "h", "2", "6", "5">>,
                        <<".", "h", "e", "v", "c">>,
                        <<".", "m", "4", "v">>,
                        <<".", "w", "m", "v">>>>,
     storageBackend |-> "s3",
     compressionSupported |-> TRUE,
     streamingSupported |-> TRUE,
     maxSizeMB |-> 5000]

AudioDefinition ==
    [type |-> AUDIO,
     mimeTypes |-> <<"audio/mpeg", "audio/wav", "audio/ogg", "audio/webm", "audio/aac", "audio/flac", "audio/opus">>,
     fileSuffixes |-> <<<<".", "m", "p", "3">>,
                        <<".", "w", "a", "v">>,
                        <<".", "o", "g", "g">>,
                        <<".", "w", "e", "b", "m">>,
                        <<".", "a", "a", "c">>,
                        <<".", "f", "l", "a", "c">>,
                        <<".", "o", "p", "u", "s">>,
                        <<".", "m", "4", "a">>,
                        <<".", "w", "m", "a">>>>,
     storageBackend |-> "s3",
     compressionSupported |-> TRUE,
     streamingSupported |-> TRUE,
     maxSizeMB |-> 500]

LogDefinition ==
    [type |-> LOG,
     mimeTypes |-> <<"text/plain", "application/x-ndjson", "text/x-log">>,
     fileSuffixes |-> <<<<".", "l", "o", "g">>,
                        <<".", "t", "x", "t">>,
                        <<".", "n", "d", "j", "s", "o", "n">>,
                        <<".", "j", "s", "o", "n", "l">>,
                        <<".", "s", "t", "d", "o", "u", "t">>,
                        <<".", "s", "t", "d", "e", "r", "r">>>>,
     storageBackend |-> "mongodb",
     compressionSupported |-> TRUE,
     streamingSupported |-> TRUE,
     maxSizeMB |-> 100]

MarkdownDefinition ==
    [type |-> MARKDOWN,
     mimeTypes |-> <<"text/markdown", "text/x-markdown", "text/plain">>,
     fileSuffixes |-> <<<<".", "m", "d">>,
                        <<".", "m", "a", "r", "k", "d", "o", "w", "n">>,
                        <<".", "m", "d", "o", "w", "n">>,
                        <<".", "m", "k", "d">>>>,
     storageBackend |-> "mongodb",
     compressionSupported |-> TRUE,
     streamingSupported |-> FALSE,
     maxSizeMB |-> 10]

\* FileDefinition with the storage backend of the document types.
FileDefinition_Mongodb ==
    [type |-> FILE,
     mimeTypes |-> <<"application/octet-stream", "*/*">>,
     fileSuffixes |-> <<<<"*">>>>,
     storageBackend |-> "mongodb",
     compressionSupported |-> TRUE,
     streamingSupported |-> FALSE,
     maxSizeMB |-> 1000]

FileDefinition ==
    [type |-> FILE,
     mimeTypes |-> <<"application/octet-stream", "*/*">>,
     fileSuffixes |-> <<<<"*">>>>,
     storageBackend |-> "s3",
     compressionSupported |-> TRUE,
     streamingSupported |-> FALSE,
     maxSizeMB |-> 1000]

\* CsvDefinition with the type field of the entry above it.
CsvDefinition_WrongType ==
    [type |-> FILE,
     mimeTypes |-> <<"text/csv", "application/csv", "text/tab-separated-values">>,
     fileSuffixes |-> <<<<".", "c", "s", "v">>,
                        <<".", "t", "s", "v">>,
                        <<".", "t", "a", "b">>>>,
     storageBackend |-> "both",
     compressionSupported |-> TRUE,
     streamingSupported |-> FALSE,
     maxSizeMB |-> 500]

CsvDefinition ==
    [type |-> CSV,
     mimeTypes |-> <<"text/csv", "application/csv", "text/tab-separated-values">>,
     fileSuffixes |-> <<<<".", "c", "s", "v">>,
                        <<".", "t", "s", "v">>,
                        <<".", "t", "a", "b">>>>,
     storageBackend |-> "both",
     compressionSupported |-> TRUE,
     streamingSupported |-> FALSE,
     maxSizeMB |-> 500]

SafetensorsDefinition ==
    [type |-> SAFETENSORS,
     mimeTypes |-> <<"application/x-safetensors", "application/octet-stream">>,
     fileSuffixes |-> <<<<".", "s", "a", "f", "e", "t", "e", "n", "s", "o", "r", "s">>,
                        <<".", "s", "t">>>>,
     storageBackend |-> "s3",
     compressionSupported |-> FALSE,
     streamingSupported |-> FALSE,
     maxSizeMB |-> 10000]

\* The object literal, as Object.entries enumerates it.
DATA_TYPE_DEFINITIONS ==
    << [key |-> TIME_SERIES, value |-> TimeSeriesDefinition],
       [key |-> PARAMETERS, value |-> ParametersDefinition],
       [key |-> IMAGES, value |-> ImagesDefinition],
       [key |-> VIDEO, value |-> VideoDefinition],
       [key |-> AUDIO, value |-> AudioDefinition],
       [key |-> LOG, value |-> LogDefinition],
       [key |-> MARKDOWN, value |-> MarkdownDefinition],
       [key |-> FILE, value |-> FileDefinition],
       [key |-> CSV, value |-> CsvDefinition],
       [key |-> SAFETENSORS, value |-> SafetensorsDefinition] >>

(***************************************************************************)
(* Strings                                                                 *)
(***************************************************************************)
UpperLetters ==
    <<"A", "B", "C", "D", "E", "F", "G", "H", "I", "J", "K", "L", "M",
      "N", "O", "P", "Q", "R", "S", "T", "U", "V", "W", "X", "Y", "Z">>

LowerLetters ==
    <<"a", "b", "c", "d", "e", "f", "g", "h", "i", "j", "k", "l", "m",
      "n", "o", "p", "q", "r", "s", "t", "u", "v", "w", "x", "y", "z">>

\* String.prototype.toLowerCase on one code unit.  The Kelvin sign U+212A
\* lower-cases to "k"; U+0130 (capital I with dot) to "i" followed by the
\* combining dot U+0307; U+0131 (dotless i) and every other unit modelled
\* here is its own lower case.
LowerCaseOf(c) ==
    IF \E i \in 1..26 : UpperLetters[i] = c
    THEN << LowerLetters[CHOOSE i \in 1..26 : UpperLetters[i] = c] >>
    ELSE IF c = "U+212A" THEN << "k" >>
    ELSE IF c = "U+0130" THEN << "i", "U+0307" >>
    ELSE << c >>

\* String.prototype.toLowerCase
RECURSIVE toLowerCase(_)
toLowerCase(s) ==
    IF s = << >> THEN << >> ELSE LowerCaseOf(Head(s)) \o toLowerCase(Tail(s))

\* String.prototype.endsWith
endsWith(s, suffix) ==
    /\ Len(suffix) <= Len(s)
    /\ SubSeq(s, Len(s) - Len(suffix) + 1, Len(s)) = suffix

\* Array.prototype.includes
includes(array, x) == \E i \in 1..Len(array) : array[i] = x

(***************************************************************************)
(* Numbers.  A byte count n is the pair [mb, bytes] with                   *)
(* n = mb * 1024 * 1024 + bytes and 0 <= bytes < 1024 * 1024, so that the  *)
(* ceilings of the table (up to 10000 MB) stay inside TLC's integers.      *)
(* Division by 1024 * 1024 is exact in IEEE doubles for these values.      *)
(***************************************************************************)
BytesPerMB == 1024 * 1024

ByteCount(mb, bytes) == [mb |-> mb, bytes |-> bytes]

\* sizeMB falling back to compressedSize when originalSize is absent.
sizeMB_CompressedFallback(payload) ==
    LET size == IF "originalSize" \in DOMAIN payload
                   /\ payload.originalSize # ByteCount(0, 0)
                THEN payload.originalSize
                ELSE IF "compressedSize" \in DOMAIN payload
                THEN payload.compressedSize
                ELSE ByteCount(0, 0)
    IN [whole |-> size.mb, frac |-> size.bytes]

\* (payload.originalSize || 0) / (1024 * 1024): the quotient as the mixed
\* number whole + frac / (1024 * 1024).
sizeMB(payload) ==
    LET size == IF "originalSize" \notin DOMAIN payload
                   \/ payload.originalSize = ByteCount(0, 0)
                THEN ByteCount(0, 0)
                ELSE payload.originalSize
    IN [whole |-> size.mb, frac |-> size.bytes]

\* q < n in place of q <= n
MixedLeq_Strict(q, n) == q.whole < n

\* q <= n for a mixed number q and an integer n
MixedLeq(q, n) == q.whole < n \/ (q.whole = n /\ q.frac = 0)

(***************************************************************************)
(* Utility functions.  defs is the value of the module-level binding       *)
(* DATA_TYPE_DEFINITIONS that the function reads when it is called.        *)
(***************************************************************************)
\* The type guards: each compares the payload's dataType with one member of
\* the enum.
isTimeSeriesData(payload) == payload.dataType = TIME_SERIES

isImageData(payload) == payload.dataType = IMAGES

isVideoData(payload) == payload.dataType = VIDEO

isAudioData(payload) == payload.dataType = AUDIO

isLogData(payload) == payload.dataType = LOG

isMarkdownData(payload) == payload.dataType = MARKDOWN

isCsvData(payload) == payload.dataType = CSV

isSafetensorsData(payload) == payload.dataType = SAFETENSORS

isFileData(payload) == payload.dataType = FILE

\* The exported type guards, by name.
TypeGuards ==
    { "isTimeSeriesData", "isImageData", "isVideoData", "isAudioData",
      "isLogData", "isMarkdownData", "isCsvData", "isSafetensorsData",
      "isFileData" }

\* The answer of the guard called name on a payload.
ApplyGuard(name, payload) ==
    CASE name = "isTimeSeriesData" -> isTimeSeriesData(payload)
      [] name = "isImageData" -> isImageData(payload)
      [] name = "isVideoData" -> isVideoData(payload)
      [] name = "isAudioData" -> isAudioData(payload)
      [] name = "isLogData" -> isLogData(payload)
      [] name = "isMarkdownData" -> isMarkdownData(payload)
      [] name = "isCsvData" -> isCsvData(payload)
      [] name = "isSafetensorsData" -> isSafetensorsData(payload)
      [] name = "isFileData" -> isFileData(payload)

\* DATA_TYPE_DEFINITIONS[dataType]
Lookup(defs, dataType) ==
    IF \E i \in 1..Len(defs) : defs[i].key = dataType
    THEN defs[CHOOSE i \in 1..Len(defs) : defs[i].key = dataType].value
    ELSE Undefined

\* someSuffixMatches comparing the filename as given, not lower-cased.
someSuffixMatches_CaseSensitive(definition, filename) ==
    \E j \in 1..Len(definition.fileSuffixes) :
        endsWith(filename, definition.fileSuffixes[j])

\* definition.fileSuffixes.some((suffix) => filename.toLowerCase().endsWith(suffix))
someSuffixMatches(definition, filename) ==
    LET lower == toLowerCase(filename)
    IN \E j \in 1..Len(definition.fileSuffixes) :
           endsWith(lower, definition.fileSuffixes[j])

\* getDataTypeForFile without its final return.
getDataTypeForFile_NoDefault(defs, filename) ==
    LET RECURSIVE loop(_)
        loop(i) ==
            IF i > Len(defs) THEN Undefined
            ELSE IF defs[i].key = FILE THEN loop(i + 1)
            ELSE IF someSuffixMatches(defs[i].value, filename) THEN defs[i].key
            ELSE loop(i + 1)
    IN loop(1)

\* getDataTypeForFile testing every entry, FILE included, the way
\* matchesSuffix does.
getDataTypeForFile_Wildcard(defs, filename) ==
    LET RECURSIVE loop(_)
        loop(i) ==
            IF i > Len(defs) THEN FILE
            ELSE IF includes(defs[i].value.fileSuffixes, << "*" >>)
                    \/ someSuffixMatches(defs[i].value, filename)
            THEN defs[i].key
            ELSE loop(i + 1)
    IN loop(1)

\* getDataTypeForFile returning the last entry of the table that matches
\* instead of the first.
getDataTypeForFile_LastMatch(defs, filename) ==
    LET RECURSIVE loop(_, _)
        loop(i, found) ==
            IF i > Len(defs) THEN found
            ELSE IF defs[i].key = FILE THEN loop(i + 1, found)
            ELSE IF someSuffixMatches(defs[i].value, filename)
                 THEN loop(i + 1, defs[i].key)
            ELSE loop(i + 1, found)
    IN loop(1, FILE)

\* getDataTypeForFile stopping one entry short of the end of the table.
getDataTypeForFile_SkipsLast(defs, filename) ==
    LET RECURSIVE loop(_)
        loop(i) ==
            IF i >= Len(defs) THEN FILE
            ELSE IF defs[i].key = FILE THEN loop(i + 1)
            ELSE IF someSuffixMatches(defs[i].value, filename) THEN defs[i].key
            ELSE loop(i + 1)
    IN loop(1)

getDataTypeForFile(defs, filename) ==
    LET RECURSIVE loop(_)
        loop(i) ==
            IF i > Len(defs) THEN FILE
            ELSE IF defs[i].key = FILE THEN loop(i + 1)
            ELSE IF someSuffixMatches(defs[i].value, filename) THEN defs[i].key
            ELSE loop(i + 1)
    IN loop(1)

\* definition.mimeTypes[0] || 'application/octet-stream'
firstMimeType(definition) ==
    IF Len(definition.mimeTypes) = 0 \/ definition.mimeTypes[1] = ""
    THEN "application/octet-stream"
    ELSE definition.mimeTypes[1]

\* getMimeTypeForFile taking the last MIME type of the definition instead
\* of the first.
getMimeTypeForFile_LastMime(defs, filename) ==
    LET definition == Lookup(defs, getDataTypeForFile(defs, filename))
    IN IF Len(definition.mimeTypes) = 0
       THEN "application/octet-stream"
       ELSE definition.mimeTypes[Len(definition.mimeTypes)]

getMimeTypeForFile(defs, filename) ==
    firstMimeType(Lookup(defs, getDataTypeForFile(defs, filename)))

getPrimaryMimeType(defs, dataType) == firstMimeType(Lookup(defs, dataType))

validatePayloadSize(defs, payload) ==
    LET definition == Lookup(defs, payload.dataType)
    IN IF "maxSizeMB" \notin DOMAIN definition \/ definition.maxSizeMB = 0
       THEN TRUE
       ELSE MixedLeq(sizeMB(payload), definition.maxSizeMB)

\* matchesSuffix comparing the filename as given, not lower-cased.
matchesSuffix_CaseSensitive(defs, filename, dataType) ==
    LET definition == Lookup(defs, dataType)
    IN IF includes(definition.fileSuffixes, << "*" >>) THEN TRUE
       ELSE \E j \in 1..Len(definition.fileSuffixes) :
                endsWith(filename, definition.fileSuffixes[j])

matchesSuffix(defs, filename, dataType) ==
    LET definition == Lookup(defs, dataType)
    IN IF includes(definition.fileSuffixes, << "*" >>) THEN TRUE
       ELSE someSuffixMatches(definition, filename)

(***************************************************************************)
(* Inputs of the utility functions                                         *)
(***************************************************************************)
\* String.prototype.toUpperCase on one code unit: U+0131 (dotless i)
\* upper-cases to "I"; U+0130 and U+212A are already upper case.
UpperCaseOf(c) ==
    IF \E i \in 1..26 : LowerLetters[i] = c
    THEN << UpperLetters[CHOOSE i \in 1..26 : LowerLetters[i] = c] >>
    ELSE IF c = "U+0131" THEN << "I" >>
    ELSE << c >>

\* String.prototype.toUpperCase
RECURSIVE toUpperCase(_)
toUpperCase(s) ==
    IF s = << >> THEN << >> ELSE UpperCaseOf(Head(s)) \o toUpperCase(Tail(s))

\* The first letter after the dot in upper case (".Json").
Capitalised(s) ==
    IF Len(s) < 2 THEN s
    ELSE << s[1] >> \o UpperCaseOf(s[2]) \o SubSeq(s, 3, Len(s))

\* Every suffix some definition of the table lists.
TableSuffixes ==
    UNION { { DATA_TYPE_DEFINITIONS[i].value.fileSuffixes[j] :
                j \in 1..Len(DATA_TYPE_DEFINITIONS[i].value.fileSuffixes) } :
            i \in 1..Len(DATA_TYPE_DEFINITIONS) }

\* Endings no definition lists, and endings that differ from a listed one
\* in a code unit outside ASCII.
OtherSuffixes ==
    { << >>,
      << "." >>,
      << ".", "p", "l", "y" >>,
      << ".", "g", "z" >>,
      << ".", "z", "i", "p" >>,
      << ".", "j", "s", "o" >>,
      << "j", "s", "o", "n" >>,
      << "_", "s", "t" >>,
      << "*" >>,
      << ".", "c", "s", "v", "*" >>,
      << ".", "m", "U+212A", "v" >>,
      << ".", "g", "U+0131", "f" >>,
      << ".", "g", "U+0130", "f" >> }

\* The suffix each definition lists first.
FirstSuffixes ==
    { DATA_TYPE_DEFINITIONS[i].value.fileSuffixes[1] :
        i \in 1..Len(DATA_TYPE_DEFINITIONS) }

Suffixes ==
    TableSuffixes \cup OtherSuffixes
    \cup { toUpperCase(s) : s \in TableSuffixes }
    \cup { Capitalised(s) : s \in FirstSuffixes }

\* Names with nothing between the stem and the suffix.
BaseFilenames == { << "a" >> \o suffix : suffix \in Suffixes }

Stems == { << >>, << "a" >> }

\* Parts a name can carry between its stem and its last suffix.
InnerParts == { << ".", "t", "a", "r" >>, << ".", "j", "s", "o", "n" >> }

\* Largest number of inner parts of a filename.
MaxInner == 1

RECURSIVE Inners(_)
Inners(n) ==
    IF n = 0 THEN { << >> }
    ELSE { << >> } \cup { p \o q : p \in InnerParts, q \in Inners(n - 1) }

Filenames ==
    { stem \o inner \o suffix :
        stem \in Stems, inner \in Inners(MaxInner), suffix \in Suffixes }

\* The timestamps frame files are named after.
Timestamps == { << "1" >>, << "1", ".", "5" >> }

\* The frame names of the README's S3 layout: {timestamp}_rgb.jpg,
\* {timestamp}_depth.png and {timestamp}_pointcloud.ply.
FrameNames ==
    { << "_", "r", "g", "b", ".", "j", "p", "g" >>,
      << "_", "d", "e", "p", "t", "h", ".", "p", "n", "g" >>,
      << "_", "p", "o", "i", "n", "t", "c", "l", "o", "u", "d",
         ".", "p", "l", "y" >> }

S3FrameFilenames ==
    { timestamp \o name : timestamp \in Timestamps, name \in FrameNames }

\* Sizes this many MB below and above a ceiling are tried.
SizeWindow == 1

\* originalSize values around the ceiling of dataType.
OriginalSizes(dataType) ==
    LET max == Lookup(DATA_TYPE_DEFINITIONS, dataType).maxSizeMB
    IN { ByteCount(mb, bytes) :
           mb \in { 0 } \cup ((max - SizeWindow)..(max + SizeWindow)),
           bytes \in { 0, 1, BytesPerMB - 1 } }

CompressedSizes == { ByteCount(20000, 0) }

\* The fields of DataPayload that validatePayloadSize can see a size in;
\* originalSize and compressedSize are optional properties.
Payloads ==
    UNION { { [dataType |-> t, originalSize |-> o, compressedSize |-> c] :
                o \in OriginalSizes(t), c \in CompressedSizes }
            \cup { [dataType |-> t, originalSize |-> o] : o \in OriginalSizes(t) }
            \cup { [dataType |-> t, compressedSize |-> c] : c \in CompressedSizes }
            \cup { [dataType |-> t] } :
            t \in DataTypeEnum }

\* The arguments the functions are called with: a filename, a data type and
\* a payload of that data type.
Inputs ==
    { [filename |-> f, dataType |-> t, payload |-> [dataType |-> t]] :
        f \in BaseFilenames, t \in DataTypeEnum }
    \cup { [filename |-> f, dataType |-> FILE, payload |-> [dataType |-> FILE]] :
             f \in Filenames \cup S3FrameFilenames }
    \cup { [filename |-> << >>, dataType |-> p.dataType, payload |-> p] :
             p \in Payloads }

(***************************************************************************)
(* State: the module-level table, the arguments, and the latest call of a  *)
(* utility function with the value it returned.                            *)
(***************************************************************************)
VARIABLES registry, filename, dataType, payload, fn, result, ncalls

registryVars == << registry, filename, dataType, payload, fn, result, ncalls >>

(***************************************************************************)
(* State of the ingestion pipeline, per stream (producerId, streamId):     *)
(* the pending batch, the last accepted sequence number, the time of the   *)
(* last flush and the state of the stream; the clock; the accept queue of  *)
(* the storage router and the batches it has routed; the envelopes each    *)
(* stream has accepted; and the response to the submit, if the latest      *)
(* operation was one.                                                      *)
(***************************************************************************)
VARIABLES pendingBatch, lastSequenceNumber, lastFlushTime, streamState, now,
          acceptQueue, routed, accepted, event

pipelineVars ==
    << pendingBatch, lastSequenceNumber, lastFlushTime, streamState, now,
       acceptQueue, routed, accepted, event >>

(***************************************************************************)
(* State of storage and of the cache chain: the objects the backends hold, *)
(* the StorageReference persisted for each logical key, every reference a  *)
(* route has returned, the routes in flight; the entries of each cache tier, least recently used *)
(* first, the backfills not yet done, for each key the time since a        *)
(* backend fallback last loaded it and whether the nearest tier has        *)
(* evicted it since; and the outcome of the latest operation, if it was a  *)
(* route or a read.                                                        *)
(***************************************************************************)
VARIABLES store, references, issued, routing, cache, backfills, loaded,
          outcome

storageVars ==
    << store, references, issued, routing, cache, backfills, loaded,
       outcome >>

vars == << registryVars, pipelineVars, storageVars >>

\* Calls are counted up to this number.
MaxCalls == 2

Counted == IF ncalls < MaxCalls THEN ncalls + 1 ELSE ncalls

(***************************************************************************)
(* Ingestion pipeline: configuration and initial state                     *)
(***************************************************************************)
\* The (producerId, streamId) pairs.
Streams == { "s1", "s2" }

\* Largest sequence number a producer sends.
MaxSeq == 2

\* The size in bytes of the envelope with sequence number n: 1 or 3.
EnvelopeBytes(n) == 1 + 2 * (n % 2)

\* Configuration: a batch closes at this count, ...
maxBatchCount == 2

\* ... at this number of bytes, ...
maxBatchBytes == 3

\* ... or at this age.
maxBatchAge == 1

\* Capacity of the accept queue of the storage router, in batches.
QueueCapacity == 1

\* The clock stops here.
MaxTime == 1

\* lastSequenceNumber of a stream that has accepted nothing.
NoSequenceNumber == -1

\* The envelopes a producer sends on stream s; the second stream is one
\* envelope shorter.
Envelopes(s) ==
    { [sequenceNumber |-> n, originalSize |-> EnvelopeBytes(n)] :
        n \in 0..(IF s = "s1" THEN MaxSeq ELSE MaxSeq - 1) }

PipelineInit ==
    /\ pendingBatch = [s \in Streams |-> << >>]
    /\ lastSequenceNumber = [s \in Streams |-> NoSequenceNumber]
    /\ lastFlushTime = [s \in Streams |-> 0]
    /\ streamState = [s \in Streams |-> "Idle"]
    /\ now = 0
    /\ acceptQueue = << >>
    /\ routed = [s \in Streams |-> << >>]
    /\ accepted = [s \in Streams |-> << >>]
    /\ event = [op |-> "none"]

(***************************************************************************)
(* Storage router and cache chain: configuration and initial state         *)
(***************************************************************************)
\* The batches that are routed: a stream and the range of sequence numbers
\* of its envelopes, all of one data type.
Batches ==
    { [stream |-> "s1", first |-> 0, last |-> 1, dataType |-> TIME_SERIES],
      [stream |-> "s2", first |-> 0, last |-> 0, dataType |-> IMAGES] }

\* At most this many attempts are made to write a batch.
maxRouteRetries == 2

\* The cache tiers, nearest to the reader first, with the time to live and
\* the capacity in entries of each.
Tiers == << "client", "application", "edge" >>

TierTtl == << 1, 2, 2 >>

TierCapacity == << 1, 2, 2 >>

TierIndexes == 1..Len(Tiers)

\* A read that leaves tiers to backfill is taken while fewer than this many
\* backfills are pending.
MaxBackfills == 1

StorageInit ==
    /\ store = EmptyBag
    /\ references = << >>
    /\ issued = { }
    /\ routing = { }
    /\ cache = [t \in TierIndexes |-> << >>]
    /\ backfills = { }
    /\ loaded = << >>
    /\ outcome = [op |-> "none"]

Init ==
    /\ registry = DATA_TYPE_DEFINITIONS
    /\ \E input \in Inputs :
           /\ filename = input.filename
           /\ dataType = input.dataType
           /\ payload = input.payload
    /\ fn = "none"
    /\ result = Undefined
    /\ ncalls = 0
    /\ PipelineInit
    /\ StorageInit

GetDataTypeForFile ==
    /\ fn' = "getDataTypeForFile"
    /\ result' = getDataTypeForFile(registry, filename)
    /\ ncalls' = Counted
    /\ UNCHANGED << registry, filename, dataType, payload >>
    /\ UNCHANGED << pipelineVars, storageVars >>

GetMimeTypeForFile ==
    /\ fn' = "getMimeTypeForFile"
    /\ result' = getMimeTypeForFile(registry, filename)
    /\ ncalls' = Counted
    /\ UNCHANGED << registry, filename, dataType, payload >>
    /\ UNCHANGED << pipelineVars, storageVars >>

\* getPrimaryMimeType taking the first MIME type off the array with shift().
GetPrimaryMimeType_Shift ==
    /\ fn' = "getPrimaryMimeType"
    /\ result' = getPrimaryMimeType(registry, dataType)
    /\ registry' =
           [i \in 1..Len(registry) |->
               IF registry[i].key = dataType /\ Len(registry[i].value.mimeTypes) > 0
               THEN [registry[i] EXCEPT !.value.mimeTypes = Tail(@)]
               ELSE registry[i]]
    /\ ncalls' = Counted
    /\ UNCHANGED << filename, dataType, payload >>
    /\ UNCHANGED << pipelineVars, storageVars >>

GetPrimaryMimeType ==
    /\ fn' = "getPrimaryMimeType"
    /\ result' = getPrimaryMimeType(registry, dataType)
    /\ ncalls' = Counted
    /\ UNCHANGED << registry, filename, dataType, payload >>
    /\ UNCHANGED << pipelineVars, storageVars >>

ValidatePayloadSize ==
    /\ fn' = "validatePayloadSize"
    /\ result' = validatePayloadSize(registry, payload)
    /\ ncalls' = Counted
    /\ UNCHANGED << registry, filename, dataType, payload >>
    /\ UNCHANGED << pipelineVars, storageVars >>

MatchesSuffix ==
    /\ fn' = "matchesSuffix"
    /\ result' = matchesSuffix(registry, filename, dataType)
    /\ ncalls' = Counted
    /\ UNCHANGED << registry, filename, dataType, payload >>
    /\ UNCHANGED << pipelineVars, storageVars >>

Next ==
    \/ GetDataTypeForFile
    \/ GetMimeTypeForFile
    \/ GetPrimaryMimeType
    \/ ValidatePayloadSize
    \/ MatchesSuffix

Spec == Init /\ [][Next]_vars

(***************************************************************************)
(* Type guards: one call of a guard on the payload                         *)
(***************************************************************************)
IsTimeSeriesData ==
    /\ fn' = "isTimeSeriesData"
    /\ result' = isTimeSeriesData(payload)
    /\ ncalls' = Counted
    /\ UNCHANGED << registry, filename, dataType, payload >>
    /\ UNCHANGED << pipelineVars, storageVars >>

IsImageData ==
    /\ fn' = "isImageData"
    /\ result' = isImageData(payload)
    /\ ncalls' = Counted
    /\ UNCHANGED << registry, filename, dataType, payload >>
    /\ UNCHANGED << pipelineVars, storageVars >>

IsVideoData ==
    /\ fn' = "isVideoData"
    /\ result' = isVideoData(payload)
    /\ ncalls' = Counted
    /\ UNCHANGED << registry, filename, dataType, payload >>
    /\ UNCHANGED << pipelineVars, storageVars >>

IsAudioData ==
    /\ fn' = "isAudioData"
    /\ result' = isAudioData(payload)
    /\ ncalls' = Counted
    /\ UNCHANGED << registry, filename, dataType, payload >>
    /\ UNCHANGED << pipelineVars, storageVars >>

IsLogData ==
    /\ fn' = "isLogData"
    /\ result' = isLogData(payload)
    /\ ncalls' = Counted
    /\ UNCHANGED << registry, filename, dataType, payload >>
    /\ UNCHANGED << pipelineVars, storageVars >>

IsMarkdownData ==
    /\ fn' = "isMarkdownData"
    /\ result' = isMarkdownData(payload)
    /\ ncalls' = Counted
    /\ UNCHANGED << registry, filename, dataType, payload >>
    /\ UNCHANGED << pipelineVars, storageVars >>

IsCsvData ==
    /\ fn' = "isCsvData"
    /\ result' = isCsvData(payload)
    /\ ncalls' = Counted
    /\ UNCHANGED << registry, filename, dataType, payload >>
    /\ UNCHANGED << pipelineVars, storageVars >>

IsSafetensorsData ==
    /\ fn' = "isSafetensorsData"
    /\ result' = isSafetensorsData(payload)
    /\ ncalls' = Counted
    /\ UNCHANGED << registry, filename, dataType, payload >>
    /\ UNCHANGED << pipelineVars, storageVars >>

IsFileData ==
    /\ fn' = "isFileData"
    /\ result' = isFileData(payload)
    /\ ncalls' = Counted
    /\ UNCHANGED << registry, filename, dataType, payload >>
    /\ UNCHANGED << pipelineVars, storageVars >>

NextGuards ==
    \/ IsTimeSeriesData
    \/ IsImageData
    \/ IsVideoData
    \/ IsAudioData
    \/ IsLogData
    \/ IsMarkdownData
    \/ IsCsvData
    \/ IsSafetensorsData
    \/ IsFileData

SpecGuards == Init /\ [][NextGuards]_vars

(***************************************************************************)
(* Ingestion pipeline: operations                                          *)
(***************************************************************************)
RECURSIVE BatchBytes(_)
BatchBytes(batch) ==
    IF batch = << >> THEN 0
    ELSE Head(batch).originalSize + BatchBytes(Tail(batch))

\* The flush trigger: count, bytes or age, whichever occurs first.
FlushDue(batch, lastFlush, time) ==
    /\ batch # << >>
    /\ \/ Len(batch) >= maxBatchCount
       \/ BatchBytes(batch) >= maxBatchBytes
       \/ time - lastFlush >= maxBatchAge

\* The accept queue of the storage router is saturated.
Saturated == Len(acceptQueue) >= QueueCapacity

\* CloseBatch discarding the batch when the router is saturated.
CloseBatch_DropWhenSaturated(s, batch) ==
    IF Saturated
    THEN /\ pendingBatch' = [pendingBatch EXCEPT ![s] = << >>]
         /\ streamState' = [streamState EXCEPT ![s] = "Throttled"]
         /\ UNCHANGED << acceptQueue, lastFlushTime >>
    ELSE /\ pendingBatch' = [pendingBatch EXCEPT ![s] = << >>]
         /\ acceptQueue' = Append(acceptQueue, [stream |-> s, envelopes |-> batch])
         /\ lastFlushTime' = [lastFlushTime EXCEPT ![s] = now]
         /\ streamState' = [streamState EXCEPT ![s] = "Buffering"]

\* The batch of stream s closes: it is forwarded to the storage router, or
\* the stream becomes Throttled and keeps it when the router is saturated.
CloseBatch(s, batch) ==
    IF Saturated
    THEN /\ pendingBatch' = [pendingBatch EXCEPT ![s] = batch]
         /\ streamState' = [streamState EXCEPT ![s] = "Throttled"]
         /\ UNCHANGED << acceptQueue, lastFlushTime >>
    ELSE /\ pendingBatch' = [pendingBatch EXCEPT ![s] = << >>]
         /\ acceptQueue' = Append(acceptQueue, [stream |-> s, envelopes |-> batch])
         /\ lastFlushTime' = [lastFlushTime EXCEPT ![s] = now]
         /\ streamState' = [streamState EXCEPT ![s] = "Buffering"]

\* submit rejecting a repeated sequence number only, not a lower one.
Submit_DuplicateOnly(s, envelope) ==
    /\ streamState[s] # "Closed"
    /\ IF envelope.sequenceNumber = lastSequenceNumber[s]
       THEN /\ event' = [op |-> "submit", stream |-> s, envelope |-> envelope,
                         response |-> "OutOfOrder"]
            /\ UNCHANGED << pendingBatch, lastSequenceNumber, lastFlushTime,
                            streamState, acceptQueue, accepted >>
       ELSE IF streamState[s] = "Throttled"
       THEN /\ event' = [op |-> "submit", stream |-> s, envelope |-> envelope,
                         response |-> "Backpressure"]
            /\ UNCHANGED << pendingBatch, lastSequenceNumber, lastFlushTime,
                            streamState, acceptQueue, accepted >>
       ELSE LET batch == Append(pendingBatch[s], envelope)
            IN /\ event' = [op |-> "submit", stream |-> s, envelope |-> envelope,
                            response |-> "Accepted"]
               /\ lastSequenceNumber' =
                      [lastSequenceNumber EXCEPT ![s] = envelope.sequenceNumber]
               /\ accepted' = [accepted EXCEPT ![s] = Append(@, envelope)]
               /\ IF FlushDue(batch, lastFlushTime[s], now)
                  THEN CloseBatch(s, batch)
                  ELSE /\ pendingBatch' = [pendingBatch EXCEPT ![s] = batch]
                       /\ streamState' = [streamState EXCEPT ![s] = "Buffering"]
                       /\ UNCHANGED << acceptQueue, lastFlushTime >>
    /\ UNCHANGED << now, routed >>

\* submit(envelope) on stream s.  A Throttled stream answers Backpressure
\* (the reject policy, or the block policy after its bounded wait).
Submit(s, envelope) ==
    /\ streamState[s] # "Closed"
    /\ IF envelope.sequenceNumber <= lastSequenceNumber[s]
       THEN /\ event' = [op |-> "submit", stream |-> s, envelope |-> envelope,
                         response |-> "OutOfOrder"]
            /\ UNCHANGED << pendingBatch, lastSequenceNumber, lastFlushTime,
                            streamState, acceptQueue, accepted >>
       ELSE IF streamState[s] = "Throttled"
       THEN /\ event' = [op |-> "submit", stream |-> s, envelope |-> envelope,
                         response |-> "Backpressure"]
            /\ UNCHANGED << pendingBatch, lastSequenceNumber, lastFlushTime,
                            streamState, acceptQueue, accepted >>
       ELSE LET batch == Append(pendingBatch[s], envelope)
            IN /\ event' = [op |-> "submit", stream |-> s, envelope |-> envelope,
                            response |-> "Accepted"]
               /\ lastSequenceNumber' =
                      [lastSequenceNumber EXCEPT ![s] = envelope.sequenceNumber]
               /\ accepted' = [accepted EXCEPT ![s] = Append(@, envelope)]
               /\ IF FlushDue(batch, lastFlushTime[s], now)
                  THEN CloseBatch(s, batch)
                  ELSE /\ pendingBatch' = [pendingBatch EXCEPT ![s] = batch]
                       /\ streamState' = [streamState EXCEPT ![s] = "Buffering"]
                       /\ UNCHANGED << acceptQueue, lastFlushTime >>
    /\ UNCHANGED << now, routed >>

SubmitEnvelope ==
    \E s \in Streams :
        \E envelope \in Envelopes(s) :
            /\ Submit(s, envelope)
            /\ UNCHANGED << registryVars, storageVars >>

\* Time passes.
Tick ==
    /\ now < MaxTime
    /\ now' = now + 1
    /\ event' = [op |-> "none"]
    /\ UNCHANGED << pendingBatch, lastSequenceNumber, lastFlushTime,
                    streamState, acceptQueue, routed, accepted >>
    /\ UNCHANGED << registryVars, storageVars >>

\* The batch of a Buffering stream has reached maxBatchAge, or the router
\* has room again for the batch a Throttled stream kept.
Flush ==
    \E s \in Streams :
        /\ streamState[s] \in { "Buffering", "Throttled" }
        /\ FlushDue(pendingBatch[s], lastFlushTime[s], now)
        /\ ~Saturated
        /\ CloseBatch(s, pendingBatch[s])
        /\ event' = [op |-> "none"]
        /\ UNCHANGED << lastSequenceNumber, now, routed, accepted >>
        /\ UNCHANGED << registryVars, storageVars >>

\* The storage router routes the oldest batch of its accept queue.
Route ==
    /\ acceptQueue # << >>
    /\ LET batch == Head(acceptQueue)
       IN routed' = [routed EXCEPT ![batch.stream] = Append(@, batch.envelopes)]
    /\ acceptQueue' = Tail(acceptQueue)
    /\ event' = [op |-> "none"]
    /\ UNCHANGED << pendingBatch, lastSequenceNumber, lastFlushTime,
                    streamState, now, accepted >>
    /\ UNCHANGED << registryVars, storageVars >>

\* The producer ends the stream, or the stream times out idle: a partial
\* pending batch is flushed first.
Close ==
    \E s \in Streams :
        /\ streamState[s] # "Closed"
        /\ IF pendingBatch[s] = << >>
           THEN UNCHANGED << pendingBatch, acceptQueue, lastFlushTime >>
           ELSE /\ ~Saturated
                /\ pendingBatch' = [pendingBatch EXCEPT ![s] = << >>]
                /\ acceptQueue' =
                       Append(acceptQueue,
                              [stream |-> s, envelopes |-> pendingBatch[s]])
                /\ lastFlushTime' = [lastFlushTime EXCEPT ![s] = now]
        /\ streamState' = [streamState EXCEPT ![s] = "Closed"]
        /\ event' = [op |-> "none"]
        /\ UNCHANGED << lastSequenceNumber, now, routed, accepted >>
        /\ UNCHANGED << registryVars, storageVars >>

InitPipeline ==
    /\ registry = DATA_TYPE_DEFINITIONS
    /\ filename = << >>
    /\ dataType = FILE
    /\ payload = [dataType |-> FILE]
    /\ fn = "none"
    /\ result = Undefined
    /\ ncalls = 0
    /\ PipelineInit
    /\ StorageInit

NextPipeline ==
    \/ SubmitEnvelope
    \/ Tick
    \/ Flush
    \/ Route
    \/ Close

SpecPipeline == InitPipeline /\ [][NextPipeline]_vars

(***************************************************************************)
(* Storage router: operations                                              *)
(***************************************************************************)
\* The storage key of a batch, derived from (producerId, streamId) and the
\* range of sequence numbers.
StorageKey(batch) == << batch.stream, batch.first, batch.last >>

LogicalKeys == { StorageKey(batch) : batch \in Batches }

\* The reference a successful route returns: the backend is the one the
\* registry gives the batch's data type, the initial tier is hot.
StorageReference(defs, batch) ==
    [dataType |-> batch.dataType,
     backendLocation |-> [backend |-> Lookup(defs, batch.dataType).storageBackend,
                          key |-> StorageKey(batch)],
     tier |-> "hot"]

\* A write adding an object whatever the backend already holds.
Write_Append(objects, key, content) ==
    objects (+) SetToBag({ [key |-> key, content |-> content] })

\* An idempotent write: the object under the key is overwritten.
Write(objects, key, content) ==
    LET others == { o \in DOMAIN objects : o.key # key }
    IN [o \in others |-> objects[o]]
           (+) SetToBag({ [key |-> key, content |-> content] })

\* The number of stored copies of a batch.
Copies(objects, batch) ==
    LET same == { o \in DOMAIN objects : o.content = batch }
    IN BagCardinality([o \in same |-> objects[o]])

\* The batches with a route in flight.
InFlight == { r.batch : r \in routing }

\* route(Batch) is called: the first attempt to write the batch is due.
BeginRoute ==
    \E batch \in Batches \ InFlight :
        /\ routing' = routing \cup { [batch |-> batch, attempt |-> 1] }
        /\ outcome' = [op |-> "none"]
        /\ UNCHANGED << store, references, issued >>
        /\ UNCHANGED << cache, backfills, loaded >>
        /\ UNCHANGED << registryVars, pipelineVars >>

\* An attempt reports a transient error; its write may have reached the
\* backend all the same (`landed`). After the last attempt allowed the
\* answer is RouteError{Unavailable}; before it, the route is retried.
AttemptFails ==
    \E r \in routing, landed \in BOOLEAN :
        LET key == StorageKey(r.batch)
        IN /\ store' = IF landed THEN Write(store, key, r.batch) ELSE store
           /\ IF r.attempt = maxRouteRetries
              THEN /\ routing' = routing \ { r }
                   /\ outcome' = [op |-> "route", batch |-> r.batch,
                                  again |-> key \in DOMAIN references,
                                  error |-> "Unavailable"]
              ELSE /\ routing' = (routing \ { r }) \cup
                                   { [r EXCEPT !.attempt = @ + 1] }
                   /\ outcome' = [op |-> "none"]
           /\ UNCHANGED << references, issued >>
           /\ UNCHANGED << cache, backfills, loaded >>
           /\ UNCHANGED << registryVars, pipelineVars >>

\* An attempt succeeds: the batch is written, its reference is persisted
\* under the logical key and returned.
AttemptSucceeds ==
    \E r \in routing :
        LET key == StorageKey(r.batch)
            reference == StorageReference(registry, r.batch)
        IN /\ store' = Write(store, key, r.batch)
           /\ references' = (key :> reference) @@ references
           /\ issued' = issued \cup
                          { [batch |-> r.batch, reference |-> reference] }
           /\ routing' = routing \ { r }
           /\ outcome' = [op |-> "route", batch |-> r.batch,
                          again |-> key \in DOMAIN references,
                          reference |-> reference]
           /\ UNCHANGED << cache, backfills, loaded >>
           /\ UNCHANGED << registryVars, pipelineVars >>

InitRouter ==
    /\ registry = DATA_TYPE_DEFINITIONS
    /\ filename = << >>
    /\ dataType = FILE
    /\ payload = [dataType |-> FILE]
    /\ fn = "none"
    /\ result = Undefined
    /\ ncalls = 0
    /\ PipelineInit
    /\ StorageInit

NextRouter ==
    \/ BeginRoute
    \/ AttemptFails
    \/ AttemptSucceeds

SpecRouter == InitRouter /\ [][NextRouter]_vars

(***************************************************************************)
(* Cache manager and hot-load orchestrator: operations                     *)
(***************************************************************************)
\* An entry of a tier has not reached the tier's time to live; age is the
\* time since insertedAt.
Live(entry, tier) == entry.age < TierTtl[tier]

\* get(key, tier) is a hit.
Hit(entries, tier, key) ==
    \E i \in 1..Len(entries) : entries[i].key = key /\ Live(entries[i], tier)

\* The value get(key, tier) returns on a hit.
Value(entries, key) ==
    entries[CHOOSE i \in 1..Len(entries) : entries[i].key = key].value

RECURSIVE DropOldest(_, _)
DropOldest(entries, capacity) ==
    IF Len(entries) < capacity \/ entries = << >> THEN entries
    ELSE DropOldest(Tail(entries), capacity)

\* put storing the entry only in a tier that has room for it.
put_NoEviction(entries, tier, key, value) ==
    LET kept(e) == e.key # key /\ Live(e, tier)
        remaining == SelectSeq(entries, kept)
    IN IF Len(remaining) < TierCapacity[tier]
       THEN Append(remaining,
                   [key |-> key, value |-> value, age |-> 0])
       ELSE remaining

\* put(key, value, tier): the entry replaces one of the same key; expired
\* entries go first, then least recently used ones until there is room.
put(entries, tier, key, value) ==
    LET kept(e) == e.key # key /\ Live(e, tier)
        remaining == SelectSeq(entries, kept)
    IN Append(DropOldest(remaining, TierCapacity[tier]),
              [key |-> key, value |-> value, age |-> 0])

\* A hit makes the entry the most recently used of its tier.
Touch(entries, key) ==
    LET others(e) == e.key # key
        this(e) == e.key = key
    IN SelectSeq(entries, others) \o SelectSeq(entries, this)

\* invalidate(key, tier)
Remove(entries, key) ==
    LET others(e) == e.key # key
    IN SelectSeq(entries, others)

\* The keys a backend fallback loaded that the nearest tier held before
\* and no longer holds after a put are marked evicted.
MarkEvicted(before, after) ==
    [k \in DOMAIN loaded |->
        IF Hit(before, 1, k) /\ ~Hit(after, 1, k)
        THEN [loaded[k] EXCEPT !.evicted = TRUE]
        ELSE loaded[k]]

\* The key was loaded by a backend fallback and the time to live of the
\* nearest tier has not elapsed since, nor was the key invalidated.
Loaded(key) ==
    /\ key \in DOMAIN loaded
    /\ loaded[key].age < TierTtl[1]

\* The object a reference points to.
Fetch(objects, reference) ==
    (CHOOSE o \in DOMAIN objects : o.key = reference.backendLocation.key).content

\* read(logicalKey): the tiers are walked nearest first; on the first hit
\* the value is returned and the nearer tiers are left to be backfilled.
\* On a full miss the key is NotFound when it has no StorageReference;
\* otherwise the object is fetched through the reference (`fetched`: the
\* fetch came back before the deadline) and put in every tier.
ReadKey(key, fetched) ==
    LET hits == { t \in TierIndexes : Hit(cache[t], t, key) }
        before == [op |-> "read", key |-> key, loaded |-> Loaded(key),
                   evicted |-> key \in DOMAIN loaded /\ loaded[key].evicted]
    IN IF hits # { }
       THEN LET nearest == CHOOSE t \in hits : \A u \in hits : t <= u
                value == Value(cache[nearest], key)
            IN /\ nearest > 1 => Cardinality(backfills) < MaxBackfills
               /\ cache' = [cache EXCEPT ![nearest] = Touch(@, key)]
               /\ backfills' = backfills \cup
                      { [key |-> key, value |-> value, tier |-> t] :
                          t \in 1..(nearest - 1) }
               /\ outcome' = before @@ [source |-> Tiers[nearest],
                                        value |-> value]
               /\ UNCHANGED loaded
       ELSE IF key \notin DOMAIN references
       THEN /\ outcome' = before @@ [source |-> "NotFound"]
            /\ UNCHANGED << cache, backfills, loaded >>
       ELSE IF ~fetched
       THEN /\ outcome' = before @@ [source |-> "Timeout"]
            /\ UNCHANGED << cache, backfills, loaded >>
       ELSE LET value == Fetch(store, references[key])
            IN /\ cache' = [t \in TierIndexes |-> put(cache[t], t, key, value)]
               /\ loaded' = (key :> [age |-> 0, evicted |-> FALSE])
                                @@ MarkEvicted(cache[1], cache'[1])
               /\ outcome' = before @@ [source |-> "backend", value |-> value]
               /\ UNCHANGED backfills

Read ==
    \E key \in LogicalKeys, fetched \in BOOLEAN :
        /\ ReadKey(key, fetched)
        /\ UNCHANGED << store, references, issued, routing >>
        /\ UNCHANGED << registryVars, pipelineVars >>

\* One pending backfill is done.
Backfill ==
    \E b \in backfills :
        /\ cache' = [cache EXCEPT ![b.tier] = put(@, b.tier, b.key, b.value)]
        /\ backfills' = backfills \ { b }
        /\ loaded' = MarkEvicted(cache[1], cache'[1])
        /\ outcome' = [op |-> "none"]
        /\ UNCHANGED << store, references, issued, routing >>
        /\ UNCHANGED << registryVars, pipelineVars >>

\* invalidate(key, tier | all)
Invalidate ==
    \E key \in LogicalKeys,
       scope \in { { t } : t \in TierIndexes } \cup { TierIndexes } :
        /\ \E t \in scope : \E i \in 1..Len(cache[t]) : cache[t][i].key = key
        /\ cache' = [t \in TierIndexes |->
                        IF t \in scope THEN Remove(cache[t], key) ELSE cache[t]]
        /\ loaded' = [k \in DOMAIN loaded \ { key } |-> loaded[k]]
        /\ outcome' = [op |-> "none"]
        /\ UNCHANGED << store, references, issued, routing, backfills >>
        /\ UNCHANGED << registryVars, pipelineVars >>

\* The age x one unit of time later, counted up to the time to live.
Older(x, ttl) == IF x < ttl THEN x + 1 ELSE x

\* One unit of time passes.
Elapse ==
    /\ cache' = [t \in TierIndexes |->
                    [i \in 1..Len(cache[t]) |->
                        [cache[t][i] EXCEPT !.age = Older(@, TierTtl[t])]]]
    /\ loaded' = [k \in DOMAIN loaded |->
                     [loaded[k] EXCEPT !.age = Older(@, TierTtl[1])]]
    /\ outcome' = [op |-> "none"]
    /\ UNCHANGED << store, references, issued, routing, backfills >>
    /\ UNCHANGED << registryVars, pipelineVars >>

\* The cache chain starts empty, over a store in which any of the batches
\* have been routed.
InitCache ==
    /\ registry = DATA_TYPE_DEFINITIONS
    /\ filename = << >>
    /\ dataType = FILE
    /\ payload = [dataType |-> FILE]
    /\ fn = "none"
    /\ result = Undefined
    /\ ncalls = 0
    /\ PipelineInit
    /\ \E routedBatches \in SUBSET Batches :
           /\ store = SetToBag({ [key |-> StorageKey(batch), content |-> batch] :
                                   batch \in routedBatches })
           /\ references =
                  [key \in { StorageKey(batch) : batch \in routedBatches } |->
                      StorageReference(DATA_TYPE_DEFINITIONS,
                          CHOOSE batch \in routedBatches : StorageKey(batch) = key)]
           /\ issued = { [batch |-> batch,
                          reference |-> StorageReference(DATA_TYPE_DEFINITIONS, batch)] :
                            batch \in routedBatches }
    /\ routing = { }
    /\ cache = [t \in TierIndexes |-> << >>]
    /\ backfills = { }
    /\ loaded = << >>
    /\ outcome = [op |-> "none"]

NextCache ==
    \/ Read
    \/ Backfill
    \/ Invalidate
    \/ Elapse

SpecCache == InitCache /\ [][NextCache]_vars

(***************************************************************************)
(* Properties of the registry                                              *)
(***************************************************************************)
\* The data types other than the generic one.
SpecificTypes == DataTypeEnum \ { FILE }

\* The suffixes listed for data type t that the lower-cased name ends with.
MatchingSuffixes(t, lower) ==
    LET definition == Lookup(registry, t)
    IN { s \in { definition.fileSuffixes[j] :
                   j \in 1..Len(definition.fileSuffixes) } :
           endsWith(lower, s) }

\* The specific data types with a suffix the name ends with.
MatchingTypes(name) ==
    LET lower == toLowerCase(name)
    IN { t \in SpecificTypes : MatchingSuffixes(t, lower) # { } }

\* C1: getDataTypeForFile returns, for every filename, one DataTypeEnum value
\* that has exactly one entry in the table, and it returns FILE when no
\* suffix of another type matches.
C1_ClassificationTotal ==
    fn = "getDataTypeForFile" =>
        /\ result \in DataTypeEnum
        /\ Cardinality({ i \in 1..Len(registry) : registry[i].key = result }) = 1
        /\ (MatchingTypes(filename) = { } => result = FILE)

\* The empty filename has been classified, to FILE.
C1_Witness ==
    /\ fn = "getDataTypeForFile"
    /\ filename = << >>
    /\ result = FILE

\* C2: when suffixes of more than one specific type match a filename,
\* getDataTypeForFile returns a type owning a longest matching suffix.
C2_LongestSuffixWins ==
    fn = "getDataTypeForFile" =>
        LET lower == toLowerCase(filename)
            types == MatchingTypes(filename)
        IN Cardinality(types) > 1 =>
               /\ result \in types
               /\ \E s \in MatchingSuffixes(result, lower) :
                      \A t \in types :
                          \A s2 \in MatchingSuffixes(t, lower) : Len(s2) <= Len(s)

\* A name two types list the suffix of has been classified.
C2_Witness ==
    /\ fn = "getDataTypeForFile"
    /\ filename = << "a", ".", "j", "s", "o", "n" >>
    /\ Cardinality(MatchingTypes(filename)) > 1
    /\ result = TIME_SERIES

\* C3: getDataTypeForFile returns FILE exactly when no suffix of a specific
\* type is a suffix of the lower-cased filename.
C3_GenericExcluded ==
    fn = "getDataTypeForFile" =>
        (result = FILE <=> MatchingTypes(filename) = { })

\* A name matching a type declared after FILE has been classified to it.
C3_Witness ==
    /\ fn = "getDataTypeForFile"
    /\ filename = << "a", ".", "c", "s", "v" >>
    /\ result = CSV

\* The data types the README lists under 'Data Types'.
ReadmeDataTypes ==
    {"time_series", "parameters", "images", "video", "audio", "log",
     "markdown", "file", "csv", "safetensors", "json", "yaml", "toml",
     "msgpack", "vuer_msg", "zip", "tar"}

\* Every MIME type some definition lists.
MimeCandidates ==
    UNION { { registry[i].value.mimeTypes[j] :
                j \in 1..Len(registry[i].value.mimeTypes) } :
            i \in 1..Len(registry) }

\* The data types listing the MIME type.
TypesWithMime(mime) ==
    { t \in DataTypeEnum : includes(Lookup(registry, t).mimeTypes, mime) }

\* C4: classification follows the resolution order identifier, suffix, MIME
\* type, generic fallback: for a filename no suffix matches, whatever MIME
\* type of the table the caller holds for the file selects a type listing
\* it.  (No function of the module takes a MIME type or an identifier as an
\* input of the classification.)
C4_ResolutionOrder ==
    fn = "getDataTypeForFile" =>
        \A mime \in MimeCandidates :
            (MatchingTypes(filename) = { } /\ TypesWithMime(mime) # { })
                => result \in TypesWithMime(mime)

\* The size is greater than maxSizeMB x 1,048,576 bytes.
ExceedsCeiling(size, maxSizeMB) ==
    size.mb > maxSizeMB \/ (size.mb = maxSizeMB /\ size.bytes > 0)

\* C5: validatePayloadSize returns false exactly when originalSize exceeds
\* the ceiling of the payload's data type, and true for a type without one.
C5_SizeValidation ==
    (fn = "validatePayloadSize" /\ "originalSize" \in DOMAIN payload) =>
        LET definition == Lookup(registry, payload.dataType)
        IN IF "maxSizeMB" \in DOMAIN definition
           THEN result = ~ExceedsCeiling(payload.originalSize, definition.maxSizeMB)
           ELSE result = TRUE

\* A payload of exactly the ceiling of its type has been accepted.
C5_Witness ==
    /\ fn = "validatePayloadSize"
    /\ payload.dataType = IMAGES
    /\ "originalSize" \in DOMAIN payload
    /\ payload.originalSize = ByteCount(50, 0)
    /\ result = TRUE

\* C6: the table holds exactly one definition per DataTypeEnum value, and the
\* type field of the definition under key k is k.
C6_RegistryWellFormed ==
    /\ { registry[i].key : i \in 1..Len(registry) } = DataTypeEnum
    /\ Len(registry) = Cardinality(DataTypeEnum)
    /\ \A i \in 1..Len(registry) : registry[i].value.type = registry[i].key

\* The definition of the last enum member has been looked up by its key.
C6_Witness ==
    /\ fn = "getPrimaryMimeType"
    /\ dataType = SAFETENSORS
    /\ Lookup(registry, dataType).type = SAFETENSORS
    /\ result = "application/x-safetensors"

\* What the latest call returns when it is the only call made on the
\* freshly initialised module.
RunAlone ==
    CASE fn = "getDataTypeForFile" ->
            getDataTypeForFile(DATA_TYPE_DEFINITIONS, filename)
      [] fn = "getMimeTypeForFile" ->
            getMimeTypeForFile(DATA_TYPE_DEFINITIONS, filename)
      [] fn = "getPrimaryMimeType" ->
            getPrimaryMimeType(DATA_TYPE_DEFINITIONS, dataType)
      [] fn = "validatePayloadSize" ->
            validatePayloadSize(DATA_TYPE_DEFINITIONS, payload)
      [] fn = "matchesSuffix" ->
            matchesSuffix(DATA_TYPE_DEFINITIONS, filename, dataType)

\* C7: in every order of calls, no call changes the table or its arguments,
\* and every call returns what it returns when run alone.
C7_SideEffectFree ==
    /\ [](fn # "none" => result = RunAlone)
    /\ [][/\ registry' = registry
          /\ filename' = filename
          /\ dataType' = dataType
          /\ payload' = payload]_vars

\* A call has returned after another call on the same module.
C7_Witness ==
    /\ ncalls >= 2
    /\ fn = "validatePayloadSize"
    /\ registry = DATA_TYPE_DEFINITIONS

\* C8: every data type of the README is a DataTypeEnum member with a
\* definition in the table.
C8_ReadmeTypesDefined ==
    \A t \in ReadmeDataTypes :
        /\ t \in DataTypeEnum
        /\ \E i \in 1..Len(registry) : registry[i].key = t

(***************************************************************************)
(* Properties of the ingestion pipeline                                    *)
(***************************************************************************)
RECURSIVE Concat(_)
Concat(batches) ==
    IF batches = << >> THEN << >> ELSE Head(batches) \o Concat(Tail(batches))

RECURSIVE QueuedOf(_, _)
\* The batches of stream s in the queue, oldest first.
QueuedOf(s, queue) ==
    IF queue = << >> THEN << >>
    ELSE IF Head(queue).stream = s
         THEN << Head(queue).envelopes >> \o QueuedOf(s, Tail(queue))
         ELSE QueuedOf(s, Tail(queue))

\* The envelopes of the batches stream s has flushed, in flush order.
Flushed(s) == Concat(routed[s]) \o Concat(QueuedOf(s, acceptQueue))

StrictlyIncreasing(envelopes) ==
    \A i \in 1..(Len(envelopes) - 1) :
        envelopes[i].sequenceNumber < envelopes[i + 1].sequenceNumber

C10_OutOfOrderRejected ==
    /\ [][\A s \in Streams :
            (/\ event'.op = "submit"
             /\ event'.stream = s
             /\ event'.envelope.sequenceNumber <= lastSequenceNumber[s])
            => /\ event'.response = "OutOfOrder"
               /\ pendingBatch'[s] = pendingBatch[s]
               /\ lastSequenceNumber'[s] = lastSequenceNumber[s]]_vars
    /\ [](\A s \in Streams : StrictlyIncreasing(accepted[s]))

\* Sequence number 2 is buffered and the later submit of 1 was rejected.
C10_Witness ==
    /\ event.op = "submit"
    /\ event.response = "OutOfOrder"
    /\ event.envelope.sequenceNumber = 1
    /\ lastSequenceNumber[event.stream] = 2
    /\ pendingBatch[event.stream] =
           << [sequenceNumber |-> 2, originalSize |-> EnvelopeBytes(2)] >>


\* The position of data type t in the declaration order of the table.
DeclarationIndex(t) ==
    CHOOSE i \in 1..Len(registry) : registry[i].key = t

\* The specific data types whose definition lists suffix s.
TypesListing(s) ==
    { t \in SpecificTypes : includes(Lookup(registry, t).fileSuffixes, s) }

\* The suffixes listed by more than one specific data type.
SharedSuffixes ==
    { s \in UNION { { Lookup(registry, t).fileSuffixes[j] :
                        j \in 1..Len(Lookup(registry, t).fileSuffixes) } :
                    t \in SpecificTypes } :
        Cardinality(TypesListing(s)) > 1 }

\* C13: a filename ending with a suffix that two data types list is always
\* classified to the type declared first in the table: '.json' to
\* TIME_SERIES and never PARAMETERS, '.webm' to VIDEO and never AUDIO.
C13_FirstDeclaredWins ==
    fn = "getDataTypeForFile" =>
        LET lower == toLowerCase(filename)
        IN /\ \A m \in MatchingTypes(filename) :
                  \A s \in MatchingSuffixes(m, lower) :
                      Cardinality(TypesListing(s)) > 1 =>
                          /\ result \in TypesListing(s)
                          /\ \A t \in TypesListing(s) :
                                 DeclarationIndex(result) <= DeclarationIndex(t)
           /\ endsWith(lower, << ".", "j", "s", "o", "n" >>) =>
                  result = TIME_SERIES
           /\ endsWith(lower, << ".", "w", "e", "b", "m" >>) =>
                  result = VIDEO

\* A name ending with the suffix VIDEO and AUDIO share has been classified
\* to VIDEO.
C13_Witness ==
    /\ fn = "getDataTypeForFile"
    /\ filename = << "a", ".", "w", "e", "b", "m" >>
    /\ TypesListing(<< ".", "w", "e", "b", "m" >>) = { VIDEO, AUDIO }
    /\ SharedSuffixes = { << ".", "j", "s", "o", "n" >>,
                          << ".", "w", "e", "b", "m" >> }
    /\ result = VIDEO

\* C14: for every payload whose dataType is a member of DataTypeEnum,
\* exactly one of the nine type guards answers true, and the guard that was
\* called answers as the payload's dataType says.
C14_ExactlyOneGuard ==
    fn \in TypeGuards =>
        /\ result = ApplyGuard(fn, payload)
        /\ payload.dataType \in DataTypeEnum =>
               Cardinality({ g \in TypeGuards : ApplyGuard(g, payload) }) = 1

\* C15: getMimeTypeForFile(f) equals getPrimaryMimeType of the data type
\* getDataTypeForFile(f) returns, which is the first MIME type that type
\* lists; it is 'application/octet-stream' for a filename no specific
\* suffix matches, and it is never empty or undefined.
C15_MimeAgreesWithType ==
    fn = "getMimeTypeForFile" =>
        LET t == getDataTypeForFile(registry, filename)
        IN /\ result = getPrimaryMimeType(registry, t)
           /\ result = Lookup(registry, t).mimeTypes[1]
           /\ (MatchingTypes(filename) = { } =>
                   result = "application/octet-stream")
           /\ result # ""
           /\ result # Undefined

\* The MIME type of a name no specific suffix matches has been asked for.
C15_Witness ==
    /\ fn = "getMimeTypeForFile"
    /\ filename = << "a", ".", "p", "l", "y" >>
    /\ MatchingTypes(filename) = { }
    /\ result = "application/octet-stream"

\* C16: every frame name of the README's S3 layout is classified to a data
\* type whose definition has storageBackend 's3', so none is sent to
\* MongoDB: the .jpg and .png names to IMAGES, the .ply name to FILE.
C16_S3LayoutClassifiesToS3 ==
    (fn = "getDataTypeForFile" /\ filename \in S3FrameFilenames) =>
        /\ Lookup(registry, result).storageBackend = "s3"
        /\ result = IF endsWith(filename, << ".", "p", "l", "y" >>)
                    THEN FILE ELSE IMAGES

\* A point-cloud frame name, which no suffix of the table matches, has
\* been classified.
C16_Witness ==
    /\ fn = "getDataTypeForFile"
    /\ filename = << "1", ".", "5", "_", "p", "o", "i", "n", "t", "c", "l",
                     "o", "u", "d", ".", "p", "l", "y" >>
    /\ filename \in S3FrameFilenames
    /\ result = FILE
    /\ Lookup(registry, result).storageBackend = "s3"

\* C17: the type getDataTypeForFile returns for a filename is one
\* matchesSuffix accepts the filename for; a filename matchesSuffix accepts
\* for a specific type is not classified FILE; and matchesSuffix accepts
\* every filename for FILE.
C17_MatchesSuffixAgrees ==
    /\ fn = "getDataTypeForFile" =>
           /\ matchesSuffix(registry, filename, result)
           /\ (\E t \in SpecificTypes : matchesSuffix(registry, filename, t)) =>
                  result # FILE
    /\ fn = "matchesSuffix" =>
           /\ (dataType # FILE /\ result) =>
                  getDataTypeForFile(registry, filename) # FILE
           /\ dataType = FILE => result

\* matchesSuffix has accepted an upper-case name for a specific type.
C17_Witness ==
    /\ fn = "matchesSuffix"
    /\ filename = << "a", ".", "Y", "A", "M", "L" >>
    /\ dataType = PARAMETERS
    /\ result = TRUE
    /\ getDataTypeForFile(registry, filename) = PARAMETERS

\* The code units outside ASCII that filenames are built from.
NonAsciiUnits == { "U+212A", "U+0130", "U+0131", "U+0307" }

IsAscii(s) == \A i \in 1..Len(s) : s[i] \notin NonAsciiUnits

\* C18 as stated: getDataTypeForFile returns the same type for a filename,
\* for its lower-case form and for its upper-case form, whatever the
\* filename.
C18_CaseInsensitive ==
    fn = "getDataTypeForFile" =>
        /\ result = getDataTypeForFile(registry, toLowerCase(filename))
        /\ result = getDataTypeForFile(registry, toUpperCase(filename))

\* C18: for every filename made of ASCII characters, getDataTypeForFile
\* returns the same type for the filename, for its lower-case form and for
\* its upper-case form; the suffixes of the returned type are in lower case.
C18_CaseInsensitiveAscii ==
    (fn = "getDataTypeForFile" /\ IsAscii(filename)) =>
        /\ result = getDataTypeForFile(registry, toLowerCase(filename))
        /\ result = getDataTypeForFile(registry, toUpperCase(filename))
        /\ \A j \in 1..Len(Lookup(registry, result).fileSuffixes) :
               LET suffix == Lookup(registry, result).fileSuffixes[j]
               IN toLowerCase(suffix) = suffix

\* An upper-case ASCII name has been classified by its lower-case suffix.
C18_Witness ==
    /\ fn = "getDataTypeForFile"
    /\ filename = << "a", ".", "J", "S", "O", "N" >>
    /\ IsAscii(filename)
    /\ toLowerCase(filename) # filename
    /\ result = TIME_SERIES

\* The names made of a stem and one suffix that data type t lists.
NamesOfType(t) ==
    { << "a" >> \o Lookup(registry, t).fileSuffixes[j] :
        j \in 1..Len(Lookup(registry, t).fileSuffixes) }

\* C19: no data type is shadowed: for every member of DataTypeEnum there is
\* a filename getDataTypeForFile classifies to it (here the data type is
\* the one the call was set up with, which ranges over the enum).
C19_EveryTypeReachable ==
    fn = "getDataTypeForFile" =>
        /\ dataType \in DataTypeEnum
        /\ \E f \in NamesOfType(dataType) :
               getDataTypeForFile(registry, f) = dataType

\* A name has been classified to AUDIO, which shares a suffix with the
\* earlier VIDEO.
C19_Witness ==
    /\ fn = "getDataTypeForFile"
    /\ filename = << "a", ".", "m", "p", "3" >>
    /\ dataType = AUDIO
    /\ result = AUDIO
    /\ filename \in NamesOfType(AUDIO)

\* C20: validatePayloadSize accepts a payload that has no originalSize, for
\* every data type and whatever its compressedSize: the size compared with
\* the ceiling is 0.
C20_MissingSizeAccepted ==
    (fn = "validatePayloadSize" /\ "originalSize" \notin DOMAIN payload) =>
        /\ result = TRUE
        /\ sizeMB(payload) = [whole |-> 0, frac |-> 0]

\* A payload with no originalSize and a compressedSize above every ceiling
\* has been validated.
C20_Witness ==
    /\ fn = "validatePayloadSize"
    /\ payload = [dataType |-> PARAMETERS, compressedSize |-> ByteCount(20000, 0)]
    /\ Lookup(registry, PARAMETERS).maxSizeMB < payload.compressedSize.mb
    /\ result = TRUE

(***************************************************************************)
(* Properties of the storage router and of the cache chain                 *)
(***************************************************************************)
\* C12: routing a batch again returns the reference every earlier route of
\* it returned and leaves one stored copy of the batch: the reference
\* points to the storage key derived from the stream and the range of
\* sequence numbers, under which the write overwrites.
C12_RouteIdempotent ==
    /\ \A batch \in Batches :
           /\ Cardinality({ r \in issued : r.batch = batch }) <= 1
           /\ Copies(store, batch) <= 1
    /\ (outcome.op = "route" /\ "reference" \in DOMAIN outcome) =>
           /\ Copies(store, outcome.batch) = 1
           /\ outcome.reference.backendLocation.key = StorageKey(outcome.batch)
           /\ references[StorageKey(outcome.batch)] = outcome.reference
    /\ \A b1, b2 \in Batches : StorageKey(b1) = StorageKey(b2) => b1 = b2

\* A batch that had been routed has been routed again, with success.
C12_Witness ==
    /\ outcome.op = "route"
    /\ outcome.again
    /\ "reference" \in DOMAIN outcome
    /\ issued = { [batch |-> outcome.batch, reference |-> outcome.reference] }
    /\ Copies(store, outcome.batch) = 1

\* The read answered from the backend has left the value it returned, the
\* content of the stored object, in every tier.
PopulatedByFallback ==
    (outcome.op = "read" /\ outcome.source = "backend") =>
        /\ outcome.value = Fetch(store, references[outcome.key])
        /\ \A t \in TierIndexes :
               /\ Hit(cache[t], t, outcome.key)
               /\ Value(cache[t], outcome.key) = outcome.value

\* C11 as stated: a read that misses every tier and is served by the
\* backend leaves the value in every tier, and a later read of the key,
\* made before the nearest tier's time to live has elapsed and before an
\* invalidation of the key, is answered by the nearest tier.
C11_CacheChain ==
    /\ PopulatedByFallback
    /\ (outcome.op = "read" /\ outcome.loaded) =>
           outcome.source = Tiers[1]

\* C11: a read that misses every tier and is served by the backend leaves
\* the value in every tier, and a later read of the key, made before the
\* nearest tier's time to live has elapsed, before an invalidation of the
\* key and before the nearest tier has evicted the key to make room, is
\* answered by the nearest tier, without a backend fetch.
C11_CacheChainUnlessEvicted ==
    /\ PopulatedByFallback
    /\ (outcome.op = "read" /\ outcome.loaded /\ ~outcome.evicted) =>
           /\ outcome.source = Tiers[1]
           /\ outcome.value = Fetch(store, references[outcome.key])

\* A key loaded by a backend fallback has been read again and the nearest
\* tier has answered.
C11_Witness ==
    /\ outcome.op = "read"
    /\ outcome.loaded
    /\ ~outcome.evicted
    /\ outcome.source = "client"
    /\ \A t \in TierIndexes : Hit(cache[t], t, outcome.key)
====
